---- MODULE Spec2Model ----
(***************************************************************************)
(* Model of scraper/data-extraction.py: the incremental link scraper.      *)
(*                                                                         *)
(* main() = get_last_data() ; get_data(MAIN_URL, last_year, last_month).   *)
(* The remote page is modelled by what the BeautifulSoup queries of the    *)
(* code return on it; the store file files-data.json by its text, a        *)
(* sequence of JSON chunks.                                                *)
(***************************************************************************)
EXTENDS Integers, Sequences, FiniteSets, TLC

VARIABLES
    doc,              \* the remote page, as seen by the queries of get_data
    file,             \* files-data.json: [exists, text]
    pc,               \* position of the running program
    last_year,        \* get_last_data's result / get_data's parameters
    last_month,
    links,            \* get_data: links
    yi,               \* get_data: position of `for year in years`
    mi,               \* get_data: position of `for m in months`
    year_value,       \* get_data: year_value
    stop_processing,  \* get_data: stop_processing
    all_links,        \* get_data: all_links
    err,              \* the exception that ended the run ("" when none)
    runs,             \* number of runs of the program started so far
    file0,            \* history: the store file when the current run started
    file1             \* history: the store file as the first run left it

vars == <<doc, file, pc, last_year, last_month, links, yi, mi, year_value,
          stop_processing, all_links, err, runs, file0, file1>>

-----------------------------------------------------------------------------
(* Bounds of the model.                                                    *)

MaxEntries == 3

RunEntries == 2

MaxStored == 2

MaxRuns == 2

-----------------------------------------------------------------------------
(* Program constants.                                                      *)

BASE_URL == "https://datos.madrid.es"

-----------------------------------------------------------------------------
(* The page as the queries see it.                                         *)

\* result of x.find("p", {"class": "info-title"}): None, or a tag with its
\* get_text(strip=True)
NoTag == [tag |-> FALSE, text |-> ""]

Title(t) == [tag |-> TRUE, text |-> t]

\* result of zip_link.get("href"): a string, or something that is not one
NoHref == [str |-> FALSE, v |-> ""]

Href(h) == [str |-> TRUE, v |-> h]

\* one element of year.find_all("li", {"class": "asociada-item"}):
\*   title     m.find("p", {"class": "info-title"})
\*   links_li  whether m.find("li", {"class": "asociada-item"}) is a Tag
\*   zip_link  whether links_li.find("a", {"class": "asociada-link ico-zip"}) is a Tag
\*   href      zip_link.get("href")
Month(t, li, a, h) == [title |-> t, links_li |-> li, zip_link |-> a, href |-> h]

\* one element of main.find_all("li", {"class": "asociada-item"}, recursive=False)
Year(t, ms) == [title |-> t, months |-> ms]

\* the page: whether the "asociada-list trancateList docs" container is
\* found, and its year elements; reachable: whether urlopen succeeds
Page(ok, m, ys) == [reachable |-> ok, main |-> m, years |-> ys]

SeqsUpTo(S, n) == UNION {[1..k -> S] : k \in 0..n}

AbsoluteHrefs == {"https://cdn.example.org/b.zip"}

\* urllib.parse.urljoin(BASE_URL, href) on the hrefs of the model: an
\* absolute URL is kept, a path is resolved against the origin
urljoin(base, href) == IF href \in AbsoluteHrefs THEN href ELSE base \o href

Record(y, m, l) == [year |-> y, month |-> m, link |-> l]

-----------------------------------------------------------------------------
(* The store file: JSON text as a sequence of chunks.                      *)

\* the chunks: the brackets, the separator, and one object per record
LB == [k |-> "["]

RB == [k |-> "]"]

COMMA == [k |-> ","]

OBJ(r) == [k |-> "{}", r |-> r]

RECURSIVE dump_items(_)
dump_items(s) ==
    IF s = <<>> THEN <<>>
    ELSE IF Len(s) = 1 THEN <<OBJ(s[1])>>
    ELSE <<OBJ(s[1]), COMMA>> \o dump_items(Tail(s))

\* json.dump(all_links, f, ensure_ascii=False, indent=2): the text written
json_dump(s) == <<LB>> \o dump_items(s) \o <<RB>>

\* the items of a text between its brackets: objects separated by commas
RECURSIVE parse_items(_)
parse_items(t) ==
    IF t = <<>> THEN [ok |-> TRUE, v |-> <<>>]
    ELSE IF t[1].k # "{}" THEN [ok |-> FALSE, v |-> <<>>]
    ELSE IF Len(t) = 1 THEN [ok |-> TRUE, v |-> <<t[1].r>>]
    ELSE IF t[2].k # "," \/ Len(t) = 2 THEN [ok |-> FALSE, v |-> <<>>]
    ELSE LET rest == parse_items(SubSeq(t, 3, Len(t)))
         IN  [ok |-> rest.ok, v |-> <<t[1].r>> \o rest.v]

\* json.load(f): ok = FALSE stands for json.JSONDecodeError
json_load(t) ==
    IF Len(t) < 2 \/ t[1] # LB \/ t[Len(t)] # RB
    THEN [ok |-> FALSE, v |-> <<>>]
    ELSE parse_items(SubSeq(t, 2, Len(t) - 1))

Absent == [exists |-> FALSE, text |-> <<>>]

Stored(s) == [exists |-> TRUE, text |-> json_dump(s)]

RawFile(t) == [exists |-> TRUE, text |-> t]

\* the filter with its test inverted: `if item in links`
NotInLinks_inverted(existing, new) ==
    SelectSeq(existing, LAMBDA item : \E i \in 1..Len(new) : new[i] = item)

\* [item for item in existing_links if item not in links]
NotInLinks(existing, new) ==
    SelectSeq(existing, LAMBDA item : \A i \in 1..Len(new) : new[i] # item)

\* a merge without the membership test: links + existing_links
merge_no_dedup(new, existing) == new \o existing

\* a merge that forgets the stored records: all_links = links
merge_only_new(new, existing) == new

\* all_links = links + [item for item in existing_links if item not in links]
merge(new, existing) == new \o NotInLinks(existing, new)

-----------------------------------------------------------------------------
(* get_last_data                                                           *)

\* the checkpoint read from the other end: last_entry = data[-1]
first_entry_from_end(data) == <<data[Len(data)].year, data[Len(data)].month>>

\* last_entry = data[0]; (last_entry.get("year", ""), last_entry.get("month", ""))
first_entry(data) == <<data[1].year, data[1].month>>

\* get_last_data() on the store file f: the pair returned, or raised = TRUE
\* when json.load raises
get_last_data(f) ==
    IF ~f.exists THEN [raised |-> FALSE, v |-> <<"", "">>]
    ELSE LET data == json_load(f.text)
         IN  IF ~data.ok THEN [raised |-> TRUE, v |-> <<"", "">>]
             ELSE IF data.v = <<>> THEN [raised |-> FALSE, v |-> <<"", "">>]
             ELSE [raised |-> FALSE, v |-> first_entry(data.v)]

Raise(e) ==
    /\ pc' = "error"
    /\ err' = e

\* main(), first half: the program is started (a fresh process) and calls
\* get_last_data
Main ==
    /\ pc \in {"start", "done"}
    /\ runs < MaxRuns
    /\ runs' = runs + 1
    /\ file0' = file
    /\ LET r == get_last_data(file)
       IN  IF r.raised
           THEN /\ Raise("JSONDecodeError")
                /\ last_year' = ""
                /\ last_month' = ""
           ELSE /\ pc' = "get_data"
                /\ err' = ""
                /\ last_year' = r.v[1]
                /\ last_month' = r.v[2]
    /\ links' = <<>>
    /\ yi' = 0
    /\ mi' = 0
    /\ year_value' = ""
    /\ stop_processing' = FALSE
    /\ all_links' = <<>>
    /\ UNCHANGED <<doc, file, file1>>

-----------------------------------------------------------------------------
(* get_data                                                                *)

\* a walk that holds the store open for writing from its start
KeepStore_opened == file' = RawFile(<<>>)

\* lines 67-145 hold no write: the store is opened for writing at line 156
KeepStore == file' = file

\* lines 67-86: fetch, parse, locate the container and the year elements
Fetch ==
    /\ pc = "get_data"
    /\ IF ~doc.reachable THEN
            /\ Raise("URLError")
            /\ UNCHANGED <<links, yi, stop_processing>>
       ELSE IF ~doc.main THEN
            /\ Raise("ValueError")
            /\ links' = <<>>
            /\ UNCHANGED <<yi, stop_processing>>
       ELSE IF doc.years = <<>> THEN
            /\ Raise("ValueError")
            /\ links' = <<>>
            /\ UNCHANGED <<yi, stop_processing>>
       ELSE /\ pc' = "years"
            /\ links' = <<>>
            /\ stop_processing' = FALSE
            /\ yi' = 1
            /\ UNCHANGED err
    /\ KeepStore
    /\ UNCHANGED <<doc, last_year, last_month, mi, year_value,
                   all_links, runs, file0, file1>>

\* lines 88-99: the head of one round of `for year in years`
YearStep ==
    /\ pc = "years"
    /\ IF yi > Len(doc.years) THEN
            /\ pc' = "save"
            /\ UNCHANGED <<year_value, mi, err>>
       ELSE LET year == doc.years[yi]
            IN  IF ~year.title.tag THEN
                     /\ Raise("ValueError")
                     /\ UNCHANGED <<year_value, mi>>
                ELSE IF year.months = <<>> THEN
                     /\ Raise("ValueError")
                     /\ year_value' = year.title.text
                     /\ UNCHANGED mi
                ELSE /\ pc' = "months"
                     /\ year_value' = year.title.text
                     /\ mi' = 1
                     /\ UNCHANGED err
    /\ KeepStore
    /\ UNCHANGED <<doc, last_year, last_month, links, yi,
                   stop_processing, all_links, runs, file0, file1>>

\* an early-stop test that compares the month alone
is_checkpoint_month_only(ly, lm, yv, mv) == ly # "" /\ lm # "" /\ mv = lm

\* line 114: the early-stop test
is_checkpoint(ly, lm, yv, mv) == ly # "" /\ lm # "" /\ yv = ly /\ mv = lm

\* `break` written for `continue`: the rest of the year is left out
Continue_as_break ==
    /\ pc' = "years"
    /\ yi' = yi + 1
    /\ UNCHANGED <<mi, links, stop_processing>>

\* lines 110, 124, 131, 138: `continue`, on to the next month element
Continue ==
    /\ mi' = mi + 1
    /\ UNCHANGED <<pc, yi, links, stop_processing>>

\* lines 119-138: whether the month element's ZIP link resolves to a string
resolvable(m) == m.links_li /\ m.zip_link /\ m.href.str

\* lines 101-145: one round of `for m in months`, or the end of the loop
MonthStep ==
    /\ pc = "months"
    /\ LET months == doc.years[yi].months
       IN  IF mi > Len(months) THEN
                \* line 144: stop_processing is false here
                /\ pc' = "years"
                /\ yi' = yi + 1
                /\ UNCHANGED <<mi, links, stop_processing>>
           ELSE LET m == months[mi]
                IN  IF ~m.title.tag THEN
                         Continue
                    ELSE IF is_checkpoint(last_year, last_month,
                                          year_value, m.title.text) THEN
                         \* break, then line 144 breaks the outer loop
                         /\ stop_processing' = TRUE
                         /\ pc' = "save"
                         /\ UNCHANGED <<mi, yi, links>>
                    ELSE IF ~resolvable(m) THEN
                         Continue
                    ELSE /\ links' = Append(links,
                                Record(year_value, m.title.text,
                                       urljoin(BASE_URL, m.href.v)))
                         /\ mi' = mi + 1
                         /\ UNCHANGED <<pc, yi, stop_processing>>
    /\ KeepStore
    /\ UNCHANGED <<doc, last_year, last_month, year_value, all_links,
                   err, runs, file0, file1>>

\* lines 147-156: read the store, merge, open the store for writing
\* (open(output_path, "w") truncates the file)
SaveOpen ==
    /\ pc = "save"
    /\ IF file.exists THEN
            LET existing_links == json_load(file.text)
            IN  IF ~existing_links.ok THEN
                     /\ Raise("JSONDecodeError")
                     /\ UNCHANGED <<all_links, file>>
                ELSE /\ all_links' = merge(links, existing_links.v)
                     /\ file' = RawFile(<<>>)
                     /\ pc' = "dump"
                     /\ UNCHANGED err
       ELSE /\ all_links' = links
            /\ file' = RawFile(<<>>)
            /\ pc' = "dump"
            /\ UNCHANGED err
    /\ UNCHANGED <<doc, last_year, last_month, links, yi, mi, year_value,
                   stop_processing, runs, file0, file1>>

\* line 157: json.dump writes the text and the file is closed
Dump ==
    /\ pc = "dump"
    /\ file' = RawFile(json_dump(all_links))
    /\ pc' = "done"
    /\ file1' = IF runs = 1 THEN file' ELSE file1
    /\ UNCHANGED <<doc, last_year, last_month, links, yi, mi, year_value,
                   stop_processing, all_links, err, runs, file0>>

GetData == Fetch \/ YearStep \/ MonthStep \/ SaveOpen \/ Dump

-----------------------------------------------------------------------------
(* The pages and the store files the runs are checked on.                  *)

\* a month element without a title
Untitled == Month(NoTag, FALSE, FALSE, NoHref)

\* a titled month element whose ZIP link cannot be resolved, d naming what
\* is missing: the links container, the ZIP anchor or the string href
LinkDefects == {"links_li", "zip_link", "href"}

Defective(d, t) == Month(Title(t), d # "links_li", d = "href", NoHref)

\* a titled month element with its ZIP link
Complete(t, h) == Month(Title(t), TRUE, TRUE, Href(h))

MonthTexts == {"02", "01"}

MonthEntries(d) ==
    {Untitled} \cup {Defective(d, t) : t \in MonthTexts}
    \cup {Complete(t, "/a.zip") : t \in MonthTexts}

\* the shape of a year element: its title and how many month elements it
\* has (a year without a title raises before its months are looked at)
YearHeads(n, yts) ==
    {[title |-> NoTag, count |-> 0]}
    \cup {[title |-> Title(y), count |-> c] : y \in yts, c \in 0..n}

\* the month elements a sequence of year shapes holds; a year without
\* months counts as one
RECURSIVE Count(_)
Count(hs) == IF hs = <<>> THEN 0 ELSE hs[1].count + Count(Tail(hs))

RECURSIVE Weight(_)
Weight(hs) ==
    IF hs = <<>> THEN 0
    ELSE (IF hs[1].count = 0 THEN 1 ELSE hs[1].count) + Weight(Tail(hs))

\* the year elements of shapes hs over the month elements flat
Assemble(hs, flat) ==
    [i \in 1..Len(hs) |->
        LET off == Count(SubSeq(hs, 1, i - 1))
        IN  Year(hs[i].title, SubSeq(flat, off + 1, off + hs[i].count))]

\* p is a page of at most n month elements, with year titles yts and link
\* defects among ds (one kind of defect in a page)
IsPage(p, n, yts, ds) ==
    \/ p \in {Page(FALSE, FALSE, <<>>), Page(TRUE, FALSE, <<>>)}
    \/ \E hs \in SeqsUpTo(YearHeads(n, yts), n) :
          /\ Weight(hs) <= n
          /\ \E d \in ds : \E flat \in [1..Count(hs) -> MonthEntries(d)] :
                p = Page(TRUE, TRUE, Assemble(hs, flat))

StoreRecords ==
    {Record("2025", "02", urljoin(BASE_URL, "/a.zip")),
     Record("2025", "01", urljoin(BASE_URL, "/old.zip"))}

\* the store: missing, zero bytes, cut short, or a saved sequence
Stores ==
    {Absent, RawFile(<<>>), RawFile(<<LB, OBJ(CHOOSE r \in StoreRecords : TRUE)>>)}
    \cup {Stored(s) : s \in SeqsUpTo(StoreRecords, MaxStored)}

Idle ==
    /\ links = <<>>
    /\ yi = 0
    /\ mi = 0
    /\ year_value = ""
    /\ stop_processing = FALSE
    /\ all_links = <<>>
    /\ err = ""
    /\ file0 = file
    /\ file1 = file

\* runs of main() against one page, from any store
Init ==
    /\ IsPage(doc, RunEntries, {"2025", "2024", ""}, {"zip_link"})
    /\ file \in Stores
    /\ pc = "start"
    /\ runs = 0
    /\ last_year = ""
    /\ last_month = ""
    /\ Idle

Next == Main \/ GetData

Spec == Init /\ [][Next]_vars

\* one call get_data(MAIN_URL, last_year, last_month), with any arguments
InitWalk ==
    /\ IsPage(doc, MaxEntries, {"2025", "2024"}, LinkDefects)
    /\ file = Absent
    /\ pc = "get_data"
    /\ runs = 1
    /\ last_year \in {"", "2025"}
    /\ last_month \in {"", "02"}
    /\ Idle

SpecWalk == InitWalk /\ [][GetData]_vars

\* one call get_data(MAIN_URL, last_year, last_month) over any store, the
\* arguments not tied to the store
InitMerge ==
    /\ IsPage(doc, RunEntries, {"2025", "2024"}, {"zip_link"})
    /\ file \in Stores
    /\ pc = "get_data"
    /\ runs = 1
    /\ last_year \in {"", "2025"}
    /\ last_month \in {"", "02", "01"}
    /\ Idle

SpecMerge == InitMerge /\ [][GetData]_vars

-----------------------------------------------------------------------------
(* The remote page between two runs: the site publishes.                   *)

\* the number of month elements of the page
Size(p) == Weight([i \in 1..Len(p.years) |->
                     [count |-> Len(p.years[i].months)]])

\* a titled month element that had no ZIP anchor gets its ZIP link
Publish ==
    /\ pc = "done"
    /\ \E y \in 1..Len(doc.years) : \E m \in 1..Len(doc.years[y].months) :
          LET e == doc.years[y].months[m]
          IN  /\ e.title.tag
              /\ ~resolvable(e)
              /\ doc' = [doc EXCEPT !.years[y].months[m] =
                                       Complete(e.title.text, "/a.zip")]
    /\ pc' = "start"
    /\ UNCHANGED <<file, last_year, last_month, links, yi, mi, year_value,
                   stop_processing, all_links, err, runs, file0, file1>>

\* a new month element is listed first in the first year, or a new year
\* with one month element is listed first
AddFront ==
    /\ pc = "done"
    /\ doc.main
    /\ Size(doc) < MaxEntries
    /\ \E e \in MonthEntries("zip_link") :
          \/ /\ doc.years # <<>>
             /\ doc' = [doc EXCEPT !.years[1].months = <<e>> \o @]
          \/ \E y \in {"2025", "2024"} :
                doc' = [doc EXCEPT !.years = <<Year(Title(y), <<e>>)>> \o @]
    /\ pc' = "start"
    /\ UNCHANGED <<file, last_year, last_month, links, yi, mi, year_value,
                   stop_processing, all_links, err, runs, file0, file1>>

\* runs of main() from no store, the page growing between them
InitEvolve ==
    /\ IsPage(doc, RunEntries, {"2025", "2024"}, {"zip_link"})
    /\ file = Absent
    /\ pc = "start"
    /\ runs = 0
    /\ last_year = ""
    /\ last_month = ""
    /\ Idle

NextEvolve == Main \/ GetData \/ Publish \/ AddFront

SpecEvolve == InitEvolve /\ [][NextEvolve]_vars

-----------------------------------------------------------------------------
(* Notions the properties are stated with.                                 *)

Range(s) == {s[i] : i \in DOMAIN s}

\* the sequence a store file holds; a missing file holds none
Content(f) == IF f.exists THEN json_load(f.text).v ELSE <<>>

\* the walk of the current run is over and its result is being saved
Walked == pc \in {"save", "dump", "done"}

-----------------------------------------------------------------------------
(* C1: a completed run of get_data saves the walk result followed by the   *)
(* previously stored records that equal none of the new ones, in their     *)
(* original order; with no store file it saves the walk result.            *)
C1_MergeSaved ==
    pc = "done" =>
        /\ file.exists
        /\ json_load(file.text).ok
        /\ LET old == Content(file0)
               kept == {i \in DOMAIN old : old[i] \notin Range(links)}
               saved == Content(file)
           IN  /\ Len(saved) = Len(links) + Cardinality(kept)
               /\ SubSeq(saved, 1, Len(links)) = links
               /\ \A i \in kept :
                     saved[Len(links) + Cardinality({j \in kept : j <= i})] = old[i]
        /\ (~file0.exists => Content(file) = links)

\* new [A, B] and old [B, C] save [A, B, C]
C1_Witness ==
    /\ pc = "done"
    /\ Len(links) = 2
    /\ links[1] # links[2]
    /\ Len(Content(file0)) = 2
    /\ Content(file0)[1] = links[2]
    /\ Content(file0)[2] \notin Range(links)
    /\ Content(file) = <<links[1], links[2], Content(file0)[2]>>

-----------------------------------------------------------------------------
(* C7: on a non-empty stored sequence get_last_data returns the year and   *)
(* month of its first element, so the checkpoint of a run is that of the   *)
(* first record the previous completed run saved.                          *)
C7_CheckpointIsFirst ==
    (runs >= 1 /\ file0.exists /\ json_load(file0.text).ok
               /\ Content(file0) # <<>>) =>
        /\ pc # "error" \/ err # "JSONDecodeError"
        /\ last_year = Content(file0)[1].year
        /\ last_month = Content(file0)[1].month
        /\ (runs >= 2 => file0 = RawFile(json_dump(Content(file0))))

\* a second run reads its checkpoint from a saved sequence whose first and
\* last records differ in year or month
C7_Witness ==
    /\ runs = 2
    /\ pc = "get_data"
    /\ Len(Content(file0)) >= 2
    /\ LET s == Content(file0)
       IN  <<s[1].year, s[1].month>> # <<s[Len(s)].year, s[Len(s)].month>>
    /\ last_year = Content(file0)[1].year
    /\ last_month = Content(file0)[1].month

-----------------------------------------------------------------------------
(* C10: every record stored before a completed run is stored after it.     *)
C10_NoRecordLost ==
    pc = "done" => Range(Content(file0)) \subseteq Range(Content(file))

\* a completed run that found new records and kept older ones, one of the
\* stored records being found again
C10_Witness ==
    /\ pc = "done"
    /\ links # <<>>
    /\ Range(Content(file0)) \cap Range(links) # {}
    /\ Range(Content(file0)) \ Range(links) # {}
    /\ Range(Content(file0)) \subseteq Range(Content(file))

-----------------------------------------------------------------------------
\* the page has a year element without a title or without month elements
BadYear(y) == ~doc.years[y].title.tag \/ doc.years[y].months = <<>>

IllFormed ==
    ~doc.main \/ doc.years = <<>> \/ \E y \in 1..Len(doc.years) : BadYear(y)

(* C5: on a page without the container, or with a year element without     *)
(* title or months, the run ends in an error and leaves the store file as  *)
(* it was.                                                                 *)
C5_IllFormedIsFatal ==
    (runs >= 1 /\ pc # "get_data" /\ IllFormed) => (~Walked /\ file = file0)

(* C5, amended: the same for a page without the container or without year *)
(* elements, and for a year element without title or months that the walk *)
(* reaches before it stops at the checkpoint: the run ends in an error     *)
(* and the store file is as it was, missing if it was missing, whatever    *)
(* was collected before.                                                   *)
C5_FatalLeavesStore ==
    /\ (pc = "error" /\ err = "ValueError") => file = file0
    /\ (runs >= 1 /\ pc \notin {"get_data", "error"}) =>
          /\ doc.main
          /\ doc.years # <<>>
          /\ \A y \in 1..Len(doc.years) :
                (y < yi \/ (y = yi /\ pc # "years")) => ~BadYear(y)

\* a year without title or months after records were already collected,
\* over a store that holds records
C5_Witness ==
    /\ pc = "error"
    /\ err = "ValueError"
    /\ yi = 2
    /\ BadYear(2)
    /\ links # <<>>
    /\ Content(file0) # <<>>
    /\ file = file0

-----------------------------------------------------------------------------
(* C4: with the store missing, empty or unparsable, get_last_data returns  *)
(* ("", "") and the run goes on as a first run; no state of the store      *)
(* makes the run end in an error.                                          *)
C4_StoreNeverFatal ==
    (runs >= 1 /\ (~file0.exists \/ ~json_load(file0.text).ok
                                 \/ Content(file0) = <<>>)) =>
        /\ last_year = "" /\ last_month = ""
        /\ ~(pc = "error" /\ err = "JSONDecodeError")

-----------------------------------------------------------------------------
(* C9: the store file is only ever the complete previous sequence or the   *)
(* complete merged one, never empty or cut short.                          *)
C9_AtomicOverwrite ==
    runs >= 1 => (file = file0 \/ file = RawFile(json_dump(all_links)))

-----------------------------------------------------------------------------
(* C3: running the program again on the unchanged page leaves the store    *)
(* as the first run saved it.                                              *)
C3_RerunUnchanged ==
    (pc = "done" /\ runs >= 2) => file = file1

\* the first record of a saved sequence carries a year and a month
\* (or the sequence is empty)
FirstLabelled(f) ==
    Content(f) = <<>> \/ (Content(f)[1].year # "" /\ Content(f)[1].month # "")

(* C3, amended: provided the first record the first run saved has a        *)
(* non-empty year and month (or the run saved nothing), running again on   *)
(* the unchanged page leaves the store as the first run saved it.          *)
C3_RerunUnchangedLabelled ==
    (pc = "done" /\ runs >= 2 /\ FirstLabelled(file1)) => file = file1

\* a second run over what the first run saved, records of the first walk
\* in front of older ones: it stops at the checkpoint and collects nothing
C3_Witness ==
    /\ pc = "done"
    /\ runs = 2
    /\ FirstLabelled(file1)
    /\ Len(Content(file1)) >= 3
    /\ stop_processing
    /\ links = <<>>
    /\ file = file1

-----------------------------------------------------------------------------
(* The month elements of a page in document order, year by year.           *)

RECURSIVE EntriesOf(_)
EntriesOf(ys) ==
    IF ys = <<>> THEN <<>>
    ELSE [i \in 1..Len(ys[1].months) |->
             [year |-> ys[1].title.text, m |-> ys[1].months[i]]]
         \o EntriesOf(Tail(ys))

\* a titled element with a links container, a ZIP anchor and a string href
Collectable(e) ==
    e.m.title.tag /\ e.m.links_li /\ e.m.zip_link /\ e.m.href.str

RecordOf(e) == Record(e.year, e.m.title.text, urljoin(BASE_URL, e.m.href.v))

\* the titled elements whose year and month labels are the checkpoint's
Matching(E, ly, lm) ==
    {i \in DOMAIN E : E[i].m.title.tag /\ E[i].year = ly
                                       /\ E[i].m.title.text = lm}

Stops(E, ly, lm) == ly # "" /\ lm # "" /\ Matching(E, ly, lm) # {}

First(S) == CHOOSE i \in S : \A j \in S : i <= j

\* the records of the collectable elements before the first matching one,
\* or of all of them when the walk does not stop
Expected(E, ly, lm) ==
    LET n == IF Stops(E, ly, lm) THEN First(Matching(E, ly, lm)) - 1
             ELSE Len(E)
        found == SelectSeq(SubSeq(E, 1, n), Collectable)
    IN  [i \in 1..Len(found) |-> RecordOf(found[i])]

(* C2: the walk of get_data(url, stopYear, stopMonth), once over, has      *)
(* collected one record for each collectable month element before the      *)
(* first element matching a non-empty checkpoint and nothing from there    *)
(* on; with an empty stopYear or stopMonth it never stops early and        *)
(* collects every collectable element.                                     *)
C2_WalkResult ==
    Walked =>
        LET E == EntriesOf(doc.years)
        IN  /\ links = Expected(E, last_year, last_month)
            /\ stop_processing <=> Stops(E, last_year, last_month)
            /\ (last_year = "" \/ last_month = "") =>
                  Len(links) = Cardinality({i \in DOMAIN E : Collectable(E[i])})

\* a walk stopped at the checkpoint after collecting a record, leaving
\* collectable elements of this year and a later year behind
C2_Witness ==
    /\ pc = "done"
    /\ stop_processing
    /\ Len(links) = 1
    /\ yi < Len(doc.years)
    /\ LET E == EntriesOf(doc.years)
       IN  /\ Collectable(E[First(Matching(E, last_year, last_month))])
           /\ Collectable(E[Len(E)])
           /\ Len(E) > First(Matching(E, last_year, last_month))

-----------------------------------------------------------------------------
\* the month element the walk is at
AtMonth == pc = "months" /\ mi <= Len(doc.years[yi].months)

Current == doc.years[yi].months[mi]

\* it has no title, or a title and no resolvable ZIP link
Defect(m) == ~m.title.tag \/ ~(m.links_li /\ m.zip_link /\ m.href.str)

\* the walk goes on to the next month element with nothing else changed
Skipped ==
    /\ pc' = "months"
    /\ mi' = mi + 1
    /\ UNCHANGED <<doc, file, last_year, last_month, links, yi, year_value,
                   stop_processing, all_links, err>>

(* C6: a month element without a title, or with a title and without links  *)
(* container, ZIP anchor or string href, yields no record and does not end *)
(* the walk: the walk goes on as if the element were absent.               *)
C6_SkipNeverEnds == [][(AtMonth /\ Defect(Current)) => Skipped]_vars

(* C6, amended: the same, unless the element is titled and its year and    *)
(* month labels equal a non-empty checkpoint: the walk stops there as at   *)
(* any matching element; and a run that reaches the save step saves the    *)
(* records it collected.                                                   *)
C6_SkipUnlessCheckpoint ==
    [][/\ (/\ AtMonth
           /\ Defect(Current)
           /\ ~(/\ Current.title.tag
                /\ last_year # "" /\ last_month # ""
                /\ year_value = last_year
                /\ Current.title.text = last_month))
          => Skipped
       /\ pc' = "done" => (file'.exists /\ Content(file') = links')]_vars

\* a completed run whose page starts with a titled element without a
\* resolvable link: the next element of the year and one of the next year
\* were collected and saved
C6_Witness ==
    /\ pc = "done"
    /\ Len(doc.years) = 2
    /\ Len(doc.years[1].months) >= 2
    /\ doc.years[1].months[1].title.tag
    /\ Defect(doc.years[1].months[1])
    /\ Len(links) >= 2
    /\ links[1].year # links[Len(links)].year
    /\ Content(file) = links

-----------------------------------------------------------------------------
(* C8: from no store, the page changing between runs only by elements      *)
(* added in front and by missing ZIP links being published, after each     *)
(* completed run the store holds the record of every collectable month     *)
(* element of the page, those a stopped walk left unvisited included.      *)
C8_StoreComplete ==
    pc = "done" =>
        LET E == EntriesOf(doc.years)
        IN  \A i \in DOMAIN E :
               Collectable(E[i]) => RecordOf(E[i]) \in Range(Content(file))

====
